---- MODULE Spec2Model ----
(***************************************************************************)
(* Model of the agent-chat memory subsystem of inkhat                      *)
(* (src/src/apps/agent-chat/AgentChat.tsx, class AgentChatApp, version     *)
(* 0.3.0, lines 301-1568 of the file): thread registry, conversation       *)
(* store, entity graph, tool execution bridge, memory summarizer and turn  *)
(* orchestrator; and of the JSON document store (class JsonStorage, lines  *)
(* 451-594 of src/src/adapters/voice-input.ts).                            *)
(*                                                                         *)
(* Execution model: JavaScript, single-threaded and cooperative.  A turn   *)
(* (sendMessage) and a summarization run (updateMemory) are suspended at   *)
(* their LLM calls; the code between two LLM calls is one atomic action.   *)
(* Public operations are issued one at a time (the caller awaits each      *)
(* call), while a summarization run is detached and overlaps with the      *)
(* operations that follow the turn that started it.  SpecSwitch drops the  *)
(* first assumption for switchThread.  Storage writes of a summarization   *)
(* run may throw, and so may the graph write of a turn in SpecTools.  Of a *)
(* thread's lastMessageAt only the order is kept; names and message texts  *)
(* are not modelled.                                                       *)
(*                                                                         *)
(* Specifications:                                                         *)
(*   Spec       thread registry and conversation store, several threads,   *)
(*              short logs                                                 *)
(*   SpecChat   one thread: turns with tool calls and LLM failures, and    *)
(*              summarization runs                                         *)
(*   FairChat   SpecChat with the LLM answering every summarization call   *)
(*   SpecGraph  the entity graph under tool calls and bulk merges          *)
(*   SpecStore  the document store under write, read and delete            *)
(*   SpecSwitch several threads, switchThread while a turn waits           *)
(*   SpecOverlap several threads, switches and deletes while a             *)
(*              summarization run waits                                    *)
(*   SpecAppend one thread, turns while a summarization run waits          *)
(*   SpecTools  one thread, tool calls that change the graph               *)
(*   SpecParse  one thread, summarizer responses with bad entity sections  *)
(*   SpecDirect one thread, updateMemory called at any time                *)
(*   SpecWindow one thread, getRecentMessages between turns                *)
(*   SpecShared several threads with a graph filled by tool calls          *)
(***************************************************************************)
EXTENDS Integers, Sequences, FiniteSets, TLC

VARIABLES
  phase,                \* "constructed" before initialize(), then "ready"
  threads,              \* this.threads: sequence of [id, lastMessageAt]
  currentThreadId,      \* this.currentThreadId: thread id or NoThread
  messages,             \* this.messages: sequence of [role, tid]
  conversationSummary,  \* this.conversationSummary: None or Some(summary)
  entityMemory,         \* this.entityMemory.nodes: sequence of nodes
  isUpdatingMemory,     \* this.isUpdatingMemory
  storage,              \* the document store, by key
  nextThread,           \* number of thread ids handed out by createThread
  turn,                 \* the sendMessage call in flight
  runs,                 \* the updateMemory calls waiting for the LLM
  last                  \* the most recent operation and what it returned

vars == <<phase, threads, currentThreadId, messages, conversationSummary,
          entityMemory, isUpdatingMemory, storage, nextThread, turn, runs,
          last>>

----------------------------------------------------------------------------
\* Bounds of the model

\* number of thread ids createThread can hand out
MaxThreadIds == 2
\* longest message log of the specifications with summarization
MaxMsgs == 6
\* longest message log of the thread registry specification
MaxShortLog == 4
\* cap on the updateMemory calls that can wait for the LLM together
MaxRuns == 2
\* longest message log of the specification with turns during a run
MaxLongLog == 8
\* largest count passed to getRecentMessages
MaxCount == 5

\* Program constants
summaryUpdateFrequency == 5
recentMessagesCount == 10
\* strengths are kept in tenths: 10 is 1.0 and 5 is the default 0.5
StrengthOne == 10
DefaultStrength == 5

----------------------------------------------------------------------------
\* Values

None == << >>
Some(x) == << x >>

\* JavaScript undefined, as the value of a missing argument or field
UNDEF == "undefined"
\* this.currentThreadId = null
NoThread == "null"
ThreadIdPool == [i \in 1..MaxThreadIds |-> "t" \o ToString(i)]

Truthy(v) == v \notin {UNDEF, ""}

Min(S) == CHOOSE x \in S : \A y \in S : x <= y

Get(args, k) == IF k \in DOMAIN args THEN args[k] ELSE UNDEF

EmptyProps == [k \in {} |-> ""]

PropsOf(args) == IF "properties" \in DOMAIN args THEN args["properties"] ELSE EmptyProps

\* { ...p, ...q }
Spread(p, q) ==
  [k \in (DOMAIN p) \cup (DOMAIN q) |-> IF k \in DOMAIN q THEN q[k] ELSE p[k]]

RemoveAt(s, i) == [j \in 1..(Len(s) - 1) |-> IF j < i THEN s[j] ELSE s[j + 1]]

\* a node of the array returned by the summarizer may lack its relationships
HasRels(n) == "relationships" \in DOMAIN n

----------------------------------------------------------------------------
\* JSON text of a tool call's argument payload

\* JSON.stringify of an argument object: its members, one per key
RECURSIVE MembersOf(_, _)
MembersOf(obj, keys) ==
  IF keys = {} THEN << >>
  ELSE LET k == CHOOSE x \in keys : TRUE
       IN << <<k, obj[k]>> >> \o MembersOf(obj, keys \ {k})

JsonStringify(obj) == [form |-> "object", members |-> MembersOf(obj, DOMAIN obj)]

\* the object a member list denotes: a later member overrides an earlier one
RECURSIVE ObjectOf(_)
ObjectOf(members) ==
  IF members = << >> THEN EmptyProps
  ELSE LET m == members[Len(members)]
           rest == ObjectOf(SubSeq(members, 1, Len(members) - 1))
       IN [k \in (DOMAIN rest) \cup {m[1]} |-> IF k = m[1] THEN m[2] ELSE rest[k]]

\* JSON.parse: an object, null, or a SyntaxError
JsonParse(text) ==
  CASE text.form = "object" -> [threw |-> FALSE, isNull |-> FALSE, obj |-> ObjectOf(text.members)]
    [] text.form = "null"   -> [threw |-> FALSE, isNull |-> TRUE, obj |-> EmptyProps]
    [] OTHER                -> [threw |-> TRUE, isNull |-> FALSE, obj |-> EmptyProps]

\* fault variant: a string payload is not parsed
NormalizeArgsUnparsed(rawArgs) ==
  IF rawArgs.kind = "object" THEN [isNull |-> FALSE, obj |-> rawArgs.val]
  ELSE [isNull |-> FALSE, obj |-> EmptyProps]

\* lines 672-681: arguments given as an object, as a string, or not at all
NormalizeArgs(rawArgs) ==
  CASE rawArgs.kind = "string" ->
         LET p == JsonParse(rawArgs.val)
         IN IF p.threw THEN [isNull |-> FALSE, obj |-> EmptyProps]
            ELSE [isNull |-> p.isNull, obj |-> p.obj]
    [] rawArgs.kind = "object" -> [isNull |-> FALSE, obj |-> rawArgs.val]
    [] OTHER -> [isNull |-> FALSE, obj |-> EmptyProps]

----------------------------------------------------------------------------
\* Entity graph: the five tools (lines 685-795)

\* nodes.findIndex(n => n.id === id), 0 for -1
FindIndex(nodes, id) ==
  IF \E i \in 1..Len(nodes) : nodes[i].id = id
  THEN Min({i \in 1..Len(nodes) : nodes[i].id = id})
  ELSE 0

Done(nodes, result) == [nodes |-> nodes, result |-> result, threw |-> FALSE]
Threw(nodes) == [nodes |-> nodes, result |-> <<"TypeError">>, threw |-> TRUE]

\* fault variant: the supplied properties replace the stored ones
MergeFieldsReplacing(old, args) ==
  [old EXCEPT
     !.name = IF Truthy(Get(args, "name")) THEN args["name"] ELSE @,
     !.description = IF Truthy(Get(args, "description")) THEN args["description"] ELSE @,
     !.properties = PropsOf(args)]

MergeFields(old, args) ==
  [old EXCEPT
     !.name = IF Truthy(Get(args, "name")) THEN args["name"] ELSE @,
     !.description = IF Truthy(Get(args, "description")) THEN args["description"] ELSE @,
     !.properties = Spread(@, PropsOf(args))]

CreateEntity(nodes, args) ==
  LET id == Get(args, "id")
      existingIndex == FindIndex(nodes, id)
  IN IF existingIndex > 0
     THEN Done([nodes EXCEPT ![existingIndex] = MergeFields(@, args)],
               <<"Updated existing entity", id>>)
     ELSE Done(Append(nodes,
                 [id |-> id,
                  type |-> IF Truthy(Get(args, "type")) THEN args["type"] ELSE "other",
                  name |-> Get(args, "name"),
                  description |-> Get(args, "description"),
                  properties |-> PropsOf(args),
                  relationships |-> << >>]),
               <<"Created entity", Get(args, "name"), id>>)

UpdateEntity(nodes, args) ==
  LET id == Get(args, "id")
      index == FindIndex(nodes, id)
  IN IF index = 0
     THEN Done(nodes, <<"Entity not found", id>>)
     ELSE Done([nodes EXCEPT ![index] = MergeFields(@, args)],
               <<"Updated entity", id>>)

StripTarget(rels, id) ==
  LET Keep(rel) == rel.targetId # id
  IN SelectSeq(rels, Keep)

\* fault variant: the cascade of lines 737-741 runs before the lookup
DeleteEntityStripFirst(nodes, args) ==
  LET id == Get(args, "id")
      index == FindIndex(nodes, id)
      stripped == [i \in 1..Len(nodes) |->
                     IF HasRels(nodes[i])
                     THEN [nodes[i] EXCEPT !.relationships = StripTarget(@, id)]
                     ELSE nodes[i]]
  IN IF index = 0
     THEN Done(stripped, <<"Entity not found", id>>)
     ELSE Done(RemoveAt(stripped, index), <<"Deleted entity", id>>)

DeleteEntity(nodes, args) ==
  LET id == Get(args, "id")
      index == FindIndex(nodes, id)
      bad == {i \in 1..Len(nodes) : ~HasRels(nodes[i])}
      stop == IF bad = {} THEN Len(nodes) + 1 ELSE Min(bad)
      stripped == [i \in 1..Len(nodes) |->
                     IF i < stop
                     THEN [nodes[i] EXCEPT !.relationships = StripTarget(@, id)]
                     ELSE nodes[i]]
  IN IF index = 0
     THEN Done(nodes, <<"Entity not found", id>>)
     ELSE IF bad # {}
     THEN Threw(stripped)
     ELSE Done(RemoveAt(stripped, index), <<"Deleted entity", id>>)

\* fault variant: Math.min(1, ...) left out
ClampFromBelow(args) ==
  IF "strength" \in DOMAIN args
  THEN (IF args["strength"] < 0 THEN 0 ELSE args["strength"])
  ELSE DefaultStrength

ClampStrength(args) ==
  IF "strength" \in DOMAIN args
  THEN (IF args["strength"] > StrengthOne THEN StrengthOne
        ELSE IF args["strength"] < 0 THEN 0 ELSE args["strength"])
  ELSE DefaultStrength

FindRel(rels, targetId, relationship) ==
  LET hits == {i \in 1..Len(rels) :
                 rels[i].targetId = targetId /\ rels[i].relationship = relationship}
  IN IF hits = {} THEN 0 ELSE Min(hits)

\* fault variant: the target check of lines 755-757 left out
AddRelationshipAnyTarget(nodes, args) ==
  LET sourceId == Get(args, "sourceId")
      targetId == Get(args, "targetId")
      relationship == Get(args, "relationship")
      sourceIndex == FindIndex(nodes, sourceId)
  IN IF sourceIndex = 0
     THEN Done(nodes, <<"Source entity not found", sourceId>>)
     ELSE IF ~HasRels(nodes[sourceIndex])
     THEN Threw(nodes)
     ELSE Done([nodes EXCEPT ![sourceIndex].relationships =
                  Append(@, [targetId |-> targetId,
                             relationship |-> relationship,
                             strength |-> ClampStrength(args)])],
               <<"Added relationship", sourceId, relationship, targetId>>)

AddRelationship(nodes, args) ==
  LET sourceId == Get(args, "sourceId")
      targetId == Get(args, "targetId")
      relationship == Get(args, "relationship")
      sourceIndex == FindIndex(nodes, sourceId)
      targetIndex == FindIndex(nodes, targetId)
  IN IF sourceIndex = 0
     THEN Done(nodes, <<"Source entity not found", sourceId>>)
     ELSE IF targetIndex = 0
     THEN Done(nodes, <<"Target entity not found", targetId>>)
     ELSE IF ~HasRels(nodes[sourceIndex])
     THEN Threw(nodes)
     ELSE LET rels == nodes[sourceIndex].relationships
              existingRelIndex == FindRel(rels, targetId, relationship)
              strength == ClampStrength(args)
          IN IF existingRelIndex > 0
             THEN Done([nodes EXCEPT ![sourceIndex].relationships[existingRelIndex].strength = strength],
                       <<"Updated relationship", sourceId, relationship, targetId>>)
             ELSE Done([nodes EXCEPT ![sourceIndex].relationships =
                          Append(@, [targetId |-> targetId,
                                     relationship |-> relationship,
                                     strength |-> strength])],
                       <<"Added relationship", sourceId, relationship, targetId>>)

RemoveRelationship(nodes, args) ==
  LET sourceId == Get(args, "sourceId")
      targetId == Get(args, "targetId")
      relationship == Get(args, "relationship")
      sourceIndex == FindIndex(nodes, sourceId)
  IN IF sourceIndex = 0
     THEN Done(nodes, <<"Source entity not found", sourceId>>)
     ELSE IF ~HasRels(nodes[sourceIndex])
     THEN Threw(nodes)
     ELSE LET rels == nodes[sourceIndex].relationships
              Keep(rel) == ~(rel.targetId = targetId /\ rel.relationship = relationship)
              kept == SelectSeq(rels, Keep)
          IN IF Len(kept) < Len(rels)
             THEN Done([nodes EXCEPT ![sourceIndex].relationships = kept],
                       <<"Removed relationship", sourceId, relationship, targetId>>)
             ELSE Done([nodes EXCEPT ![sourceIndex].relationships = kept],
                       <<"Relationship not found", sourceId, relationship, targetId>>)

\* the switch of lines 684-799; reading a field of null throws a TypeError
Dispatch(nodes, name, args) ==
  CASE name = "create_entity"       -> IF args.isNull THEN Threw(nodes) ELSE CreateEntity(nodes, args.obj)
    [] name = "update_entity"       -> IF args.isNull THEN Threw(nodes) ELSE UpdateEntity(nodes, args.obj)
    [] name = "delete_entity"       -> IF args.isNull THEN Threw(nodes) ELSE DeleteEntity(nodes, args.obj)
    [] name = "add_relationship"    -> IF args.isNull THEN Threw(nodes) ELSE AddRelationship(nodes, args.obj)
    [] name = "remove_relationship" -> IF args.isNull THEN Threw(nodes) ELSE RemoveRelationship(nodes, args.obj)
    [] OTHER                        -> Done(nodes, <<"Unknown tool", name>>)

\* fault variant: the catch of lines 800-802 left out
ExecuteEntityToolNoCatch(nodes, toolCall) ==
  Dispatch(nodes, toolCall.name, NormalizeArgs(toolCall.arguments))

\* executeEntityTool (lines 667-803)
ExecuteEntityTool(nodes, toolCall) ==
  LET r == Dispatch(nodes, toolCall.name, NormalizeArgs(toolCall.arguments))
  IN IF r.threw
     THEN Done(r.nodes, <<"Error executing", toolCall.name>>)
     ELSE r

----------------------------------------------------------------------------
\* Summarizer response text (lines 885-887, 900-901)

ConvMarker == [tok |-> "=== CONVERSATION MEMORY ==="]
EntityMarker == [tok |-> "=== ENTITY MEMORY ==="]
\* a code fence around the JSON
Fence == [tok |-> "fence"]
Prose == [tok |-> "prose"]
JsonArray(P) == [tok |-> "json", form |-> "array", nodes |-> P]
JsonOther == [tok |-> "json", form |-> "object", nodes |-> << >>]

Positions(text, t) == {i \in 1..Len(text) : text[i].tok = t.tok}

\* /=== CONVERSATION MEMORY ===\s*([\s\S]*?)\s*=== ENTITY MEMORY ===/
ConversationMatch(text) ==
  \E i \in Positions(text, ConvMarker) : \E j \in Positions(text, EntityMarker) : i < j

\* /=== ENTITY MEMORY ===\s*([\s\S]*)/ : what follows the first marker
EntityMatch(text) == Positions(text, EntityMarker) # {}

EntityCapture(text) == SubSeq(text, Min(Positions(text, EntityMarker)) + 1, Len(text))

\* line 900: both replace() calls drop the code fences
StripFences(text) ==
  LET NotFence(t) == t.tok # Fence.tok
  IN SelectSeq(text, NotFence)

\* JSON.parse of the entity section, then Array.isArray
ParseEntityJson(text) ==
  LET body == StripFences(text)
  IN IF Len(body) = 1 /\ body[1].tok = "json"
     THEN [threw |-> FALSE, isArray |-> body[1].form = "array", nodes |-> body[1].nodes]
     ELSE [threw |-> TRUE, isArray |-> FALSE, nodes |-> << >>]

\* lines 908-913: each node with a known id replaces the stored one
RECURSIVE ReplaceKnown(_, _)
ReplaceKnown(nodes, updatedNodes) ==
  IF updatedNodes = << >> THEN nodes
  ELSE LET index == FindIndex(nodes, Head(updatedNodes).id)
       IN ReplaceKnown(IF index > 0 THEN [nodes EXCEPT ![index] = Head(updatedNodes)] ELSE nodes,
                       Tail(updatedNodes))

\* fault variant: the parsed array becomes the graph
BulkReplace(nodes, parsedNodes) == parsedNodes

\* lines 904-915: the bulk merge of a parsed node array
BulkMerge(nodes, parsedNodes) ==
  LET existingIds == {nodes[i].id : i \in 1..Len(nodes)}
      IsNew(n) == n.id \notin existingIds
      IsKnown(n) == n.id \in existingIds
      newNodes == SelectSeq(parsedNodes, IsNew)
      updatedNodes == SelectSeq(parsedNodes, IsKnown)
  IN ReplaceKnown(nodes, updatedNodes) \o newNodes

\* what became of the entity section of a response (lines 898-921)
EntityOutcome(text) ==
  IF ~EntityMatch(text) THEN "absent"
  ELSE LET p == ParseEntityJson(EntityCapture(text))
       IN IF p.threw THEN "unparsable" ELSE IF ~p.isArray THEN "no-array" ELSE "merged"

\* fault variant: a section that yields no array empties the graph
MergeOrReset(nodes, text) ==
  IF EntityOutcome(text) = "absent" THEN nodes
  ELSE IF EntityOutcome(text) = "merged"
  THEN BulkMerge(nodes, ParseEntityJson(EntityCapture(text)).nodes)
  ELSE << >>

\* lines 898-921: the entity section of a response applied to the graph
MergeEntitySection(nodes, text) ==
  IF ~EntityMatch(text) THEN nodes
  ELSE LET p == ParseEntityJson(EntityCapture(text))
       IN IF p.threw \/ ~p.isArray THEN nodes ELSE BulkMerge(nodes, p.nodes)

----------------------------------------------------------------------------
\* Document store and thread persistence

AllThreadIds == {ThreadIdPool[i] : i \in 1..MaxThreadIds}

EmptyStorage ==
  [threads |-> None,
   history |-> [t \in AllThreadIds |-> None],
   summary |-> [t \in AllThreadIds |-> None],
   entity  |-> None]

SummaryCount(sum) == IF sum = None THEN 0 ELSE sum[1].messageCount

InIndex(ths, id) == \E i \in 1..Len(ths) : ths[i].id = id

\* new Date(): later than every lastMessageAt of the index
Now(ths) == Len(ths) + 1

\* timestamps are kept as ranks 1..Len(ths): only their order is modelled
Renumber(ths) ==
  [i \in 1..Len(ths) |->
     [ths[i] EXCEPT !.lastMessageAt =
        Cardinality({j \in 1..Len(ths) : ths[j].lastMessageAt <= ths[i].lastMessageAt})]]

\* lines 567-570: thread.lastMessageAt = new Date() on the record of threadId
Touch(ths, threadId) ==
  Renumber([i \in 1..Len(ths) |->
              IF ths[i].id = threadId THEN [ths[i] EXCEPT !.lastMessageAt = Now(ths)]
              ELSE ths[i]])

\* saveThread (lines 557-573)
SaveThread(st, ths, threadId, msgs, sum) ==
  LET st1 == IF Len(msgs) > 0 THEN [st EXCEPT !.history[threadId] = Some(msgs)] ELSE st
      st2 == IF sum # None THEN [st1 EXCEPT !.summary[threadId] = sum] ELSE st1
  IN IF InIndex(ths, threadId)
     THEN [storage |-> [st2 EXCEPT !.threads = Some(Touch(ths, threadId))],
           threads |-> Touch(ths, threadId)]
     ELSE [storage |-> st2, threads |-> ths]

\* loadThread (lines 535-555)
LoadThread(st, threadId) ==
  [messages |-> IF st.history[threadId] # None THEN st.history[threadId][1] ELSE << >>,
   summary  |-> st.summary[threadId]]

\* saveEntityMemory (lines 585-587)
SaveEntityMemory(st, nodes) == [st EXCEPT !.entity = Some(nodes)]

\* switchThread (lines 492-500) applied to a state given as a record
SwitchTo(s, threadId) ==
  LET sv == IF s.currentThreadId # NoThread
            THEN SaveThread(s.storage, s.threads, s.currentThreadId, s.messages, s.summary)
            ELSE [storage |-> s.storage, threads |-> s.threads]
      ld == LoadThread(sv.storage, threadId)
  IN [storage |-> sv.storage, threads |-> sv.threads, currentThreadId |-> threadId,
      messages |-> ld.messages, summary |-> ld.summary]

\* createThread (lines 477-490) applied to a state given as a record
CreateIn(s, threadId) ==
  LET ths == Append(s.threads, [id |-> threadId, lastMessageAt |-> Now(s.threads)])
  IN [s EXCEPT !.threads = ths, !.storage = [s.storage EXCEPT !.threads = Some(ths)]]

Here ==
  [storage |-> storage, threads |-> threads, currentThreadId |-> currentThreadId,
   messages |-> messages, summary |-> conversationSummary]

Become(s) ==
  /\ storage' = s.storage
  /\ threads' = s.threads
  /\ currentThreadId' = s.currentThreadId
  /\ messages' = s.messages
  /\ conversationSummary' = s.summary

----------------------------------------------------------------------------
\* State machine

\* llm counts the calls of this.llm.complete the turn has issued (lines 979, 1010),
\* nested the tool calls its follow-up response carried
IdleTurn ==
  [pc |-> "idle", tid |-> NoThread, upos |-> 0, calls |-> << >>, results |-> << >>,
   llm |-> 0, nested |-> 0]

Note(op, arg) == [op |-> op, arg |-> arg, snap |-> None, expect |-> None, ret |-> None]

Init ==
  /\ phase = "constructed"
  /\ threads = << >>
  /\ currentThreadId = NoThread
  /\ messages = << >>
  /\ conversationSummary = None
  /\ entityMemory = << >>
  /\ isUpdatingMemory = FALSE
  /\ storage = EmptyStorage
  /\ nextThread = 0
  /\ turn = IdleTurn
  /\ runs = << >>
  /\ last = Note("new", NoThread)

FreshThreadId == ThreadIdPool[nextThread + 1]

\* the ids a caller can hold: those of the index and those of deleted threads
IssuedThreadIds == {ThreadIdPool[i] : i \in 1..nextThread}

IndexedThreadIds == {threads[i].id : i \in 1..Len(threads)}

\* initialize (lines 431-446)
Initialize ==
  /\ phase = "constructed"
  /\ LET loaded == IF storage.threads # None THEN storage.threads[1] ELSE threads
         nodes == IF storage.entity # None THEN storage.entity[1] ELSE entityMemory
         s0 == [Here EXCEPT !.threads = loaded]
         s1 == IF Len(loaded) = 0 THEN CreateIn(s0, FreshThreadId) ELSE s0
     IN /\ Become(SwitchTo(s1, s1.threads[1].id))
        /\ entityMemory' = nodes
        /\ nextThread' = IF Len(loaded) = 0 THEN nextThread + 1 ELSE nextThread
  /\ phase' = "ready"
  /\ last' = Note("initialize", NoThread)
  /\ UNCHANGED <<isUpdatingMemory, turn, runs>>

\* createThread (lines 477-490)
CreateThread ==
  /\ phase = "ready"
  /\ nextThread < MaxThreadIds
  /\ Become(CreateIn(Here, FreshThreadId))
  /\ nextThread' = nextThread + 1
  /\ last' = Note("createThread", NoThread)
  /\ UNCHANGED <<phase, entityMemory, isUpdatingMemory, turn, runs>>

\* switchThread (lines 492-500)
SwitchThread(threadId) ==
  /\ phase = "ready"
  /\ Become(SwitchTo(Here, threadId))
  /\ last' = [Note("switchThread", threadId) EXCEPT
                !.snap = Some([tid |-> currentThreadId, messages |-> messages,
                               summary |-> conversationSummary]),
                !.expect = IF /\ last.op = "switchThread"
                              /\ last.snap[1].tid = threadId
                              /\ currentThreadId # threadId
                           THEN last.snap ELSE None]
  /\ UNCHANGED <<phase, entityMemory, isUpdatingMemory, nextThread, turn, runs>>

\* fault variant: everything the app has stored is deleted with the thread
DeleteAllKeys(st, threadId) ==
  [st EXCEPT !.history[threadId] = None, !.summary[threadId] = None, !.entity = None]

\* lines 504-505: storage.delete of the history and the summary of the thread
DeleteThreadKeys(st, threadId) ==
  [st EXCEPT !.history[threadId] = None, !.summary[threadId] = None]

\* deleteThread (lines 502-520)
DeleteThread(threadId) ==
  /\ phase = "ready"
  /\ LET NotIt(t) == t.id # threadId
         ths == Renumber(SelectSeq(threads, NotIt))
         st == [DeleteThreadKeys(storage, threadId) EXCEPT !.threads = Some(ths)]
         s0 == [Here EXCEPT !.threads = ths, !.storage = st]
     IN IF currentThreadId # threadId
        THEN Become(s0) /\ UNCHANGED nextThread
        ELSE IF Len(ths) > 0
        THEN Become(SwitchTo(s0, ths[1].id)) /\ UNCHANGED nextThread
        ELSE /\ nextThread < MaxThreadIds
             /\ Become(SwitchTo(CreateIn(s0, FreshThreadId), FreshThreadId))
             /\ nextThread' = nextThread + 1
  /\ last' = Note("deleteThread", threadId)
  /\ UNCHANGED <<phase, entityMemory, isUpdatingMemory, turn, runs>>

\* clearCurrentThread (lines 1062-1068)
ClearCurrentThread ==
  /\ phase = "ready"
  /\ currentThreadId # NoThread
  /\ LET sv == SaveThread(storage, threads, currentThreadId, << >>, None)
     IN /\ messages' = << >>
        /\ conversationSummary' = None
        /\ storage' = sv.storage
        /\ threads' = sv.threads
  /\ last' = Note("clearCurrentThread", NoThread)
  /\ UNCHANGED <<phase, currentThreadId, entityMemory, isUpdatingMemory, nextThread,
                 turn, runs>>

\* clearEntityMemory (lines 1070-1073)
ClearEntityMemory ==
  /\ phase = "ready"
  /\ entityMemory' = << >>
  /\ storage' = SaveEntityMemory(storage, << >>)
  /\ last' = Note("clearEntityMemory", NoThread)
  /\ UNCHANGED <<phase, threads, currentThreadId, messages, conversationSummary,
                 isUpdatingMemory, nextThread, turn, runs>>

----------------------------------------------------------------------------
\* Memory summarizer: updateMemory (lines 808-930)

\* fault variant: the guard of lines 812-814 left out
NeverUpdating(flag) == FALSE

\* lines 812-814: a run is in progress
AlreadyUpdating(flag) == flag

\* fault variant: the flag reset at the end of the try block instead of in finally
FlagAfterSuccess(outcome) == outcome # "done"

\* line 928: the finally block, whatever the outcome of the run
FlagAfterRun(outcome) == FALSE

\* the part of updateMemory before its LLM call (lines 809-827); a run records
\* the thread and the end of the delta it sends (line 820: messages.slice(count))
UpdateMemoryStart(cur, msgs, sum, flag, rs) ==
  IF cur = NoThread \/ Len(msgs) < 2
  THEN [flag |-> flag, runs |-> rs, note |-> "returned"]
  ELSE IF AlreadyUpdating(flag)
  THEN [flag |-> flag, runs |-> rs, note |-> "skipped"]
  ELSE IF Len(msgs) - SummaryCount(sum) <= 0
  THEN [flag |-> FlagAfterRun("empty"), runs |-> rs, note |-> "empty"]
  ELSE [flag |-> TRUE, note |-> "started",
        runs |-> Append(rs, [tid |-> cur, upto |-> Len(msgs)])]

\* the part of updateMemory after its LLM call (lines 885-929); of
\* records which thread's request the summary text answers, it is no field of the code
UpdateMemoryResume(i, resp, fault) ==
  /\ i \in 1..Len(runs)
  /\ LET hit == resp.ok /\ ConversationMatch(resp.text) /\ currentThreadId # NoThread
         sum == IF hit
                THEN Some([messageCount |-> Len(messages), threadId |-> currentThreadId,
                           of |-> runs[i].tid])
                ELSE conversationSummary
         nodes == IF resp.ok THEN MergeEntitySection(entityMemory, resp.text) ELSE entityMemory
         sv == SaveThread(storage, threads, currentThreadId, messages, sum)
         outcome == IF ~resp.ok THEN "llm-failed"
                    ELSE IF fault = "none" THEN "done" ELSE fault
     IN /\ conversationSummary' = sum
        /\ entityMemory' = nodes
        /\ threads' = IF resp.ok /\ fault # "saveThread" THEN sv.threads ELSE threads
        /\ storage' = IF ~resp.ok \/ fault = "saveThread" THEN storage
                      ELSE IF fault = "saveEntityMemory" THEN sv.storage
                      ELSE SaveEntityMemory(sv.storage, nodes)
        /\ isUpdatingMemory' = FlagAfterRun(outcome)
        /\ last' = [Note("updateMemory", runs[i].tid) EXCEPT
                      !.ret = Some(outcome),
                      !.expect = Some([upto |-> runs[i].upto, replaced |-> hit,
                                       entity |-> IF resp.ok THEN EntityOutcome(resp.text)
                                                  ELSE "absent"])]
  /\ runs' = RemoveAt(runs, i)
  /\ UNCHANGED <<phase, currentThreadId, messages, nextThread, turn>>

----------------------------------------------------------------------------
\* Turn orchestrator: sendMessage (lines 934-1040)

\* lines 939-944
PushUser(msgs, tid) == Append(msgs, [role |-> "user", tid |-> tid])

\* sendMessage up to its first LLM call (lines 934-985)
SendMessage(cap) ==
  /\ phase = "ready"
  /\ turn.pc = "idle"
  /\ currentThreadId # NoThread
  /\ Len(messages) + 2 <= cap
  /\ messages' = PushUser(messages, currentThreadId)
  /\ turn' = [IdleTurn EXCEPT !.pc = "llm1", !.tid = currentThreadId,
                              !.upos = Len(messages) + 1, !.llm = 1]
  /\ last' = Note("sendMessage", NoThread)
  /\ UNCHANGED <<phase, threads, currentThreadId, conversationSummary, entityMemory,
                 isUpdatingMemory, storage, nextThread, runs>>

\* what a returning call is observed to have done
Returned(t, outcome, trigger) ==
  [tid |-> t.tid, upos |-> t.upos, outcome |-> outcome, trigger |-> trigger,
   calls |-> Len(t.calls), results |-> Len(t.results), llm |-> t.llm,
   nested |-> t.nested]

\* fault variant: the exception leaves sendMessage
Rethrow(t) == Returned(t, "thrown", "none")

\* lines 1037-1039: an exception of the try block becomes the reply
CatchError(t) == Returned(t, "error-reply", "none")

Return(op, ret) ==
  /\ turn' = IdleTurn
  /\ last' = [Note(op, ret.tid) EXCEPT !.ret = Some(ret)]

RECURSIVE RunTools(_, _, _)

\* fault variant: every tool call is applied to the graph the response found
RunToolsOnFirstGraph(nodes, calls, results) ==
  IF calls = << >> THEN [nodes |-> nodes, results |-> results, threw |-> FALSE]
  ELSE [nodes |-> ExecuteEntityTool(nodes, calls[Len(calls)]).nodes,
        results |-> [i \in 1..Len(calls) |-> ExecuteEntityTool(nodes, calls[i]).result],
        threw |-> FALSE]

\* lines 991-998: the tool calls in array order; an exception ends the loop
RunTools(nodes, calls, results) ==
  IF calls = << >> THEN [nodes |-> nodes, results |-> results, threw |-> FALSE]
  ELSE LET r == ExecuteEntityTool(nodes, Head(calls))
       IN IF r.threw
          THEN [nodes |-> r.nodes, results |-> results, threw |-> TRUE]
          ELSE RunTools(r.nodes, Tail(calls), Append(results, r.result))

\* lines 1019-1036: append the reply, persist the thread, trigger the summarizer
CompleteTurn(op, t, fault, cap) ==
  LET msgs == Append(messages, [role |-> "assistant", tid |-> t.tid])
      sv == SaveThread(storage, threads, currentThreadId, msgs, conversationSummary)
      fires == Len(msgs) - SummaryCount(conversationSummary) >= summaryUpdateFrequency
      um == UpdateMemoryStart(currentThreadId, msgs, conversationSummary, isUpdatingMemory, runs)
  IN /\ Len(messages) < cap
     /\ Len(runs) < MaxRuns
     /\ messages' = msgs
     /\ IF fault # "none"
        THEN /\ Return(op, CatchError(t))
             /\ UNCHANGED <<threads, storage, isUpdatingMemory, runs>>
        ELSE /\ threads' = sv.threads
             /\ storage' = sv.storage
             /\ isUpdatingMemory' = IF fires THEN um.flag ELSE isUpdatingMemory
             /\ runs' = IF fires THEN um.runs ELSE runs
             /\ Return(op, Returned(t, "reply", IF fires THEN um.note ELSE "none"))

\* fault variant: the graph is not written before the follow-up call
PersistLater(st, nodes) == st

\* line 1001: saveEntityMemory after the tool loop
PersistAfterTools(st, nodes) == SaveEntityMemory(st, nodes)

\* fault variant: the tool calls of the follow-up response are executed too
RunFollowUpTools(nodes, resp) ==
  IF resp.ok THEN RunTools(nodes, resp.toolCalls, << >>).nodes ELSE nodes

\* lines 1010-1024: only response.content of the follow-up response is read
IgnoreToolCalls(nodes, resp) == nodes

\* the first LLM call returns or throws (lines 979-1017)
TurnFirstResponse(resp, fault, cap) ==
  /\ turn.pc = "llm1"
  /\ IF ~resp.ok
     THEN /\ Return("firstResponse", CatchError(turn))
          /\ UNCHANGED <<messages, threads, storage, entityMemory, isUpdatingMemory, runs>>
     ELSE IF Len(resp.toolCalls) = 0
     THEN /\ CompleteTurn("firstResponse", turn, fault, cap)
          /\ UNCHANGED entityMemory
     ELSE LET r == RunTools(entityMemory, resp.toolCalls, << >>)
              t == [turn EXCEPT !.calls = resp.toolCalls, !.results = r.results]
          IN /\ entityMemory' = r.nodes
             /\ IF r.threw \/ fault # "none"
                THEN /\ Return("firstResponse", CatchError(t))
                     /\ UNCHANGED storage
                ELSE /\ turn' = [t EXCEPT !.pc = "llm2", !.llm = 2]
                     /\ last' = [Note("firstResponse", t.tid) EXCEPT
                                   !.snap = Some(entityMemory)]
                     /\ storage' = PersistAfterTools(storage, r.nodes)
             /\ UNCHANGED <<messages, threads, isUpdatingMemory, runs>>
  /\ UNCHANGED <<phase, currentThreadId, conversationSummary, nextThread>>

\* the follow-up LLM call returns or throws (lines 1010-1036)
TurnFollowUp(resp, fault, cap) ==
  /\ turn.pc = "llm2"
  /\ IF ~resp.ok
     THEN /\ Return("followUp", CatchError(turn))
          /\ UNCHANGED <<messages, threads, storage, isUpdatingMemory, runs>>
     ELSE CompleteTurn("followUp", [turn EXCEPT !.nested = Len(resp.toolCalls)], fault, cap)
  /\ entityMemory' = IgnoreToolCalls(entityMemory, resp)
  /\ UNCHANGED <<phase, currentThreadId, conversationSummary, nextThread>>

----------------------------------------------------------------------------
\* Inputs: what the LLM and the document store can answer

LlmFailed == [ok |-> FALSE, toolCalls |-> << >>, text |-> << >>]
Reply(calls) == [ok |-> TRUE, toolCalls |-> calls, text |-> << >>]
Summary(text) == [ok |-> TRUE, toolCalls |-> << >>, text |-> text]

Call(name, kind, val) == [name |-> name, arguments |-> [kind |-> kind, val |-> val]]

\* summarizer responses without entities
PlainSummaries ==
  { LlmFailed,
    Summary(<<ConvMarker, Prose, EntityMarker, JsonArray(<< >>)>>),
    Summary(<<ConvMarker, Prose>>),
    Summary(<<Prose, EntityMarker, Prose>>) }

RunFaults == {"none", "saveThread", "saveEntityMemory"}

\* tool-call lists that leave the graph as it was: every tool name, arguments
\* as an object, as JSON text, as the text null, as malformed text, or absent
ChatToolCalls ==
  { << >>,
    << Call("delete_entity", "string", [form |-> "null"]),
       Call("no_such_tool", "string", [form |-> "garbage"]),
       Call("update_entity", "object", [name |-> "Alice"]),
       Call("remove_relationship", "string",
            JsonStringify([sourceId |-> "e1", targetId |-> "e2", relationship |-> "knows"])),
       Call("add_relationship", "absent", EmptyProps) >>,
    << Call("create_entity", "string", [form |-> "garbage"]),
       Call("delete_entity", "object", EmptyProps) >> }

ChatResponses == {LlmFailed} \cup {Reply(c) : c \in ChatToolCalls}

FollowUpResponses == {LlmFailed, Reply(<< >>)}

----------------------------------------------------------------------------
\* no sendMessage call is waiting
Idle == turn.pc = "idle"

\* Thread registry and conversation store
Next ==
  \/ Initialize
  \/ Idle /\ CreateThread
  \/ Idle /\ \E id \in IssuedThreadIds : SwitchThread(id)
  \/ Idle /\ \E id \in IssuedThreadIds : DeleteThread(id)
  \/ Idle /\ ClearCurrentThread
  \/ SendMessage(MaxShortLog)
  \/ TurnFirstResponse(Reply(<< >>), "none", MaxShortLog)

Spec == Init /\ [][Next]_vars

\* One thread: turns, tool calls, LLM failures and summarization runs
ResumeSomeRun ==
  \E i \in 1..MaxRuns, resp \in PlainSummaries, fault \in RunFaults :
    UpdateMemoryResume(i, resp, fault)

NextChat ==
  \/ Initialize
  \/ Idle /\ \E id \in IndexedThreadIds : SwitchThread(id)
  \/ Idle /\ ClearCurrentThread
  \/ SendMessage(MaxMsgs)
  \/ \E resp \in ChatResponses : TurnFirstResponse(resp, "none", MaxMsgs)
  \/ \E resp \in FollowUpResponses : TurnFollowUp(resp, "none", MaxMsgs)
  \/ ResumeSomeRun

SpecChat == Init /\ [][NextChat]_vars

\* every LLM call of a summarization run returns or throws
FairChat == SpecChat /\ WF_vars(ResumeSomeRun)

----------------------------------------------------------------------------
\* Entity graph under single tool calls and bulk merges

Edge(targetId, relationship, strength) ==
  [targetId |-> targetId, relationship |-> relationship, strength |-> strength]

\* nodes a summarizer response can carry
Alice == [id |-> "e1", type |-> "person", name |-> "Alice", description |-> "friend",
          properties |-> EmptyProps, relationships |-> << Edge("e2", "lives_in", 7) >>]
City == [id |-> "e2", type |-> "place", name |-> "SF", description |-> "city",
         properties |-> [state |-> "CA"], relationships |-> << >>]
Bare == [id |-> "e2", type |-> "place", name |-> "SF", description |-> "",
         properties |-> EmptyProps]
Wild == [id |-> "e1", type |-> "person", name |-> "Alice", description |-> "friend",
         properties |-> EmptyProps,
         relationships |-> << Edge("e2", "knows", 50), Edge("e2", "knows", 3) >>]

GraphSummaryTexts ==
  { <<ConvMarker, Prose, EntityMarker, JsonArray(<< >>)>>,
    <<ConvMarker, Prose, EntityMarker, JsonArray(<< Alice >>)>>,
    <<ConvMarker, Prose, EntityMarker, Fence, JsonArray(<< City, City >>), Fence>>,
    <<EntityMarker, JsonArray(<< Bare >>)>>,
    <<EntityMarker, JsonArray(<< Wild >>)>>,
    <<ConvMarker, Prose, EntityMarker, JsonOther>>,
    <<ConvMarker, Prose, EntityMarker, Prose, JsonArray(<< Alice >>)>>,
    <<ConvMarker, Prose>> }

AliceArgs == [id |-> "e1", type |-> "person", name |-> "Alice", description |-> "friend"]
CityArgs == [id |-> "e2", name |-> "SF", description |-> "city", properties |-> [state |-> "CA"]]
Knows == [sourceId |-> "e1", targetId |-> "e2", relationship |-> "knows"]

GraphToolCalls ==
  { Call("create_entity", "object", AliceArgs),
    Call("create_entity", "string", JsonStringify(CityArgs)),
    Call("create_entity", "string", [form |-> "garbage"]),
    Call("update_entity", "object", [id |-> "e1", name |-> "Al", properties |-> [age |-> "30"]]),
    Call("update_entity", "object", [id |-> "e2", description |-> ""]),
    Call("delete_entity", "object", [id |-> "e1"]),
    Call("delete_entity", "string", JsonStringify([id |-> "e2"])),
    Call("delete_entity", "string", [form |-> "null"]),
    Call("add_relationship", "object", Knows),
    Call("add_relationship", "string", JsonStringify(Spread(Knows, [strength |-> 9]))),
    Call("add_relationship", "object", [sourceId |-> "e2", targetId |-> "e1",
                                         relationship |-> "home_of", strength |-> 50]),
    Call("add_relationship", "object", [sourceId |-> "e1", targetId |-> "e1",
                                         relationship |-> "self", strength |-> 0 - 20]),
    Call("remove_relationship", "object", Knows),
    Call("remove_relationship", "absent", EmptyProps),
    Call("no_such_tool", "object", AliceArgs) }

\* one tool call of a first response (lines 991-998)
ToolCall(toolCall) ==
  /\ phase = "ready"
  /\ LET r == ExecuteEntityTool(entityMemory, toolCall)
     IN /\ entityMemory' = r.nodes
        /\ last' = [Note("toolCall", NoThread) EXCEPT
                      !.ret = Some([name |-> toolCall.name,
                                    kind |-> toolCall.arguments.kind,
                                    args |-> NormalizeArgs(toolCall.arguments),
                                    result |-> r.result, threw |-> r.threw])]
  /\ UNCHANGED <<phase, threads, currentThreadId, messages, conversationSummary,
                 isUpdatingMemory, storage, nextThread, turn, runs>>

\* the entity section of a summarizer response (lines 898-921)
SummarizerMerge(text) ==
  /\ phase = "ready"
  /\ entityMemory' = MergeEntitySection(entityMemory, text)
  /\ last' = Note("bulkMerge", NoThread)
  /\ UNCHANGED <<phase, threads, currentThreadId, messages, conversationSummary,
                 isUpdatingMemory, storage, nextThread, turn, runs>>

NextGraph ==
  \/ Initialize
  \/ \E toolCall \in GraphToolCalls : ToolCall(toolCall)
  \/ \E text \in GraphSummaryTexts : SummarizerMerge(text)
  \/ ClearEntityMemory

SpecGraph == Init /\ [][NextGraph]_vars

----------------------------------------------------------------------------
\* Properties

TurnReturned == last.op \in {"firstResponse", "followUp"} /\ last.ret # None

StoredCount(st, t) == SummaryCount(st.summary[t])
StoredLen(st, t) == IF st.history[t] = None THEN 0 ELSE Len(st.history[t][1])

\* C1: every relationship's targetId is the id of a node of the graph,
\* after any tool calls and summarization passes (no dangling edge).
NoDanglingEdge ==
  \A i \in 1..Len(entityMemory) :
    HasRels(entityMemory[i]) =>
      \A k \in 1..Len(entityMemory[i].relationships) :
        \E j \in 1..Len(entityMemory) :
          entityMemory[j].id = entityMemory[i].relationships[k].targetId

\* C2: no two nodes of the graph have the same id, after any tool calls and
\* summarization passes.
UniqueNodeIds ==
  \A i, j \in 1..Len(entityMemory) : i # j => entityMemory[i].id # entityMemory[j].id

\* C3: switchThread from T to another thread and straight back to T restores
\* the message log and the summary T had in memory when it was left.
RoundTripRestores ==
  (last.op = "switchThread" /\ last.expect # None) =>
     /\ messages = last.expect[1].messages
     /\ conversationSummary = last.expect[1].summary

\* C4: at most one summarization run is between setting and resetting the
\* busy flag, the flag is set exactly while a run waits for the LLM, and a
\* turn that completes while the flag is set starts no run and leaves the
\* summary, the graph and the persisted graph as they were.
OneRunAtATime ==
  [][ /\ Len(runs') <= 1
      /\ isUpdatingMemory' <=> (Len(runs') = 1)
      /\ (isUpdatingMemory /\ ~Idle /\ turn'.pc = "idle") =>
            /\ runs' = runs
            /\ isUpdatingMemory'
            /\ conversationSummary' = conversationSummary
            /\ entityMemory' = entityMemory
            /\ storage'.entity = storage.entity ]_vars

\* a turn completed with the trigger condition met while a run was waiting
TriggerSkipped ==
  /\ TurnReturned
  /\ last.ret[1].trigger = "skipped"
  /\ Len(runs) = 1
  /\ isUpdatingMemory

\* C5: a summarization run that set the busy flag eventually resets it,
\* also when the LLM call or a storage write of the run throws.
BusyFlagReleased == isUpdatingMemory ~> ~isUpdatingMemory

\* a run has ended in a failure and the flag is reset
FlagResetAfterFailure ==
  /\ last.op = "updateMemory"
  /\ last.ret[1] \in {"llm-failed", "saveThread", "saveEntityMemory"}
  /\ ~isUpdatingMemory
  /\ runs = << >>

\* C6: a summary's messageCount never exceeds the length of its thread's
\* log, in memory and as persisted, and successive values of a thread's
\* summary messageCount never decrease.
SummaryCountSound ==
  [][ /\ SummaryCount(conversationSummary') <= Len(messages')
      /\ \A t \in AllThreadIds :
           /\ StoredCount(storage', t) <= StoredLen(storage', t)
           /\ StoredCount(storage', t) >= StoredCount(storage, t)
      /\ (currentThreadId' = currentThreadId /\ conversationSummary' # None) =>
            SummaryCount(conversationSummary') >= SummaryCount(conversationSummary) ]_vars

\* C7: a sendMessage call whose first or follow-up LLM call throws returns
\* an error-labeled reply, never an exception, and the user message it
\* appended is still in the log of its thread.
ErrorBecomesReply ==
  (TurnReturned /\ last.ret[1].outcome # "reply") =>
     /\ last.ret[1].outcome = "error-reply"
     /\ currentThreadId = last.ret[1].tid
     /\ last.ret[1].upos \in 1..Len(messages)
     /\ messages[last.ret[1].upos] = [role |-> "user", tid |-> last.ret[1].tid]

\* the follow-up LLM call of a turn has thrown
FollowUpFailed ==
  /\ last.op = "followUp"
  /\ last.ret # None
  /\ last.ret[1].outcome = "error-reply"
  /\ last.ret[1].calls > 0

\* C8: executeEntityTool returns a status string for every tool call, so
\* all tool calls of a response are executed and the follow-up completion
\* is issued.
ToolCallsNeverAbort ==
  /\ turn.pc = "llm2" =>
       /\ Len(turn.calls) > 0
       /\ Len(turn.results) = Len(turn.calls)
       /\ \A i \in 1..Len(turn.results) : turn.results[i][1] # "TypeError"
  /\ (last.op = "firstResponse" /\ last.ret # None) => last.ret[1].calls = 0

\* a response whose first tool call raises a TypeError was executed to the end
BadCallSurvived ==
  /\ turn.pc = "llm2"
  /\ Len(turn.calls) = 5
  /\ turn.results[1] = <<"Error executing", "delete_entity">>
  /\ turn.results[2] = <<"Unknown tool", "no_such_tool">>
  /\ Len(turn.results) = 5

\* C9: a completed deleteThread leaves the thread index non-empty and the
\* current-thread pointer on a thread of the index.
DeleteKeepsAThread ==
  last.op = "deleteThread" =>
     /\ Len(threads) > 0
     /\ InIndex(threads, currentThreadId)

\* C10: switchThread never leaves the current-thread pointer on an id that
\* is absent from the thread index.
SwitchOnlyToIndexed ==
  last.op = "switchThread" => InIndex(threads, currentThreadId)

\* C11: after deleteThread(id) storage holds neither a history nor a summary
\* document for id and the index has no record of id, also when id was the
\* current thread with a non-empty log.
DeleteLeavesNoTrace ==
  last.op = "deleteThread" =>
     /\ storage.history[last.arg] = None
     /\ storage.summary[last.arg] = None
     /\ ~InIndex(threads, last.arg)
     /\ storage.threads # None /\ ~InIndex(storage.threads[1], last.arg)

\* C12: counting the messages added to the log since the last summary, a
\* returning turn has started no summarization run while fewer than
\* summaryUpdateFrequency were added, and once that many were added one
\* summarization attempt is under way.
SummarizerFiresAtFrequency ==
  TurnReturned =>
     LET added == Len(messages) - SummaryCount(conversationSummary)
     IN /\ added < summaryUpdateFrequency => last.ret[1].trigger # "started"
        /\ added >= summaryUpdateFrequency => Len(runs) = 1

\* a tool call of the given name has just been executed on an argument object
Called(name) ==
  /\ last.op = "toolCall"
  /\ last.ret[1].name = name
  /\ ~last.ret[1].args.isNull

Arg(k) == Get(last.ret[1].args.obj, k)

NodesWithId(nodes, id) == {i \in 1..Len(nodes) : nodes[i].id = id}

\* C13: after a create_entity call with id X the graph has exactly one node
\* with id X, and repeating the call with the same arguments leaves the
\* nodes as they are.
CreateIsIdempotentUpsert ==
  Called("create_entity") =>
     /\ Cardinality(NodesWithId(entityMemory, Arg("id"))) = 1
     /\ CreateEntity(entityMemory, last.ret[1].args.obj).nodes = entityMemory

\* relationships of a node, none for a node stored without the field
RelsOf(n) == IF HasRels(n) THEN n.relationships ELSE << >>

\* C14: after delete_entity(X) on an existing node X the graph has no node X
\* and no relationship whose targetId is X, and every other node and every
\* relationship to another target is as before.
DeleteCascades ==
  [][ (Called("delete_entity")' /\ NodesWithId(entityMemory, Arg("id")') # {}) =>
        LET X == Arg("id")'
            NotX(n) == n.id # X
            ToOther(rel) == rel.targetId # X
            before == SelectSeq(entityMemory, NotX)
        IN /\ NodesWithId(entityMemory', X) = {}
           /\ Len(entityMemory') = Len(before)
           /\ \A i \in 1..Len(before) :
                /\ [k \in (DOMAIN before[i]) \ {"relationships"} |-> before[i][k]]
                     = [k \in (DOMAIN entityMemory'[i]) \ {"relationships"} |-> entityMemory'[i][k]]
                /\ RelsOf(entityMemory'[i]) = SelectSeq(RelsOf(before[i]), ToOther) ]_vars

\* add_relationship has just stored or updated an edge
EdgeStored ==
  /\ Called("add_relationship")
  /\ last.ret[1].result[1] \in {"Added relationship", "Updated relationship"}

\* the edges of the source node that carry the (targetId, relationship) of the call
EdgesOfCall ==
  LET rels == entityMemory[FindIndex(entityMemory, Arg("sourceId"))].relationships
  IN {rels[k] : k \in {j \in 1..Len(rels) : /\ rels[j].targetId = Arg("targetId")
                                            /\ rels[j].relationship = Arg("relationship")}}

\* min(1, max(0, s)) in tenths for a supplied strength s, 0.5 for none
ExpectedStrength ==
  IF "strength" \notin DOMAIN last.ret[1].args.obj THEN 5
  ELSE IF Arg("strength") >= 10 THEN 10
  ELSE IF Arg("strength") <= 0 THEN 0
  ELSE Arg("strength")

\* C15: after add_relationship the source node has exactly one edge for the
\* (targetId, relationship) pair of the call, with the strength of that call.
OneEdgePerPair ==
  EdgeStored =>
     LET rels == entityMemory[FindIndex(entityMemory, Arg("sourceId"))].relationships
         hits == {j \in 1..Len(rels) : /\ rels[j].targetId = Arg("targetId")
                                       /\ rels[j].relationship = Arg("relationship")}
     IN /\ Cardinality(hits) = 1
        /\ \A j \in hits : rels[j].strength = ExpectedStrength

\* C16: the strength of every stored relationship lies in [0,1], after any
\* tool calls and summarization passes.
StrengthInUnitInterval ==
  \A i \in 1..Len(entityMemory) :
    \A k \in 1..Len(RelsOf(entityMemory[i])) :
      /\ RelsOf(entityMemory[i])[k].strength >= 0
      /\ RelsOf(entityMemory[i])[k].strength <= StrengthOne

\* C17: a successful add_relationship stores min(1, max(0, s)) for a
\* supplied numeric strength s and 0.5 when no strength is supplied.
AddStoresClampedStrength ==
  EdgeStored =>
     LET rels == entityMemory[FindIndex(entityMemory, Arg("sourceId"))].relationships
         k == FindRel(rels, Arg("targetId"), Arg("relationship"))
     IN /\ k > 0
        /\ rels[k].strength = ExpectedStrength

\* a strength above 1 has been supplied and 1 was stored
ClampedFromAbove ==
  /\ EdgeStored
  /\ "strength" \in DOMAIN last.ret[1].args.obj
  /\ Arg("strength") > 10
  /\ \E e \in EdgesOfCall : e.strength = 10

\* C18: add_relationship with a missing endpoint returns a not-found result
\* naming the source id when the source is missing and the target id when
\* only the target is missing, and leaves every node of the graph unchanged.
MissingEndpointRejected ==
  [][ (/\ Called("add_relationship")'
       /\ \/ NodesWithId(entityMemory, Arg("sourceId")') = {}
          \/ NodesWithId(entityMemory, Arg("targetId")') = {}) =>
        /\ entityMemory' = entityMemory
        /\ last'.ret[1].result =
             IF NodesWithId(entityMemory, Arg("sourceId")') = {}
             THEN <<"Source entity not found", Arg("sourceId")'>>
             ELSE <<"Target entity not found", Arg("targetId")'>> ]_vars

\* the source exists, the target does not, and the call was rejected
TargetMissing ==
  /\ Called("add_relationship")
  /\ last.ret[1].result = <<"Target entity not found", Arg("targetId")>>
  /\ NodesWithId(entityMemory, Arg("sourceId")) # {}
  /\ NodesWithId(entityMemory, Arg("targetId")) = {}

IsPrefix(s, t) == Len(s) <= Len(t) /\ SubSeq(t, 1, Len(s)) = s

StoredLog(st, t) == IF st.history[t] = None THEN << >> ELSE st.history[t][1]

\* C19: a thread's log changes only by appending: after any operation other
\* than deleteThread of that thread, its previous log, in memory and as
\* persisted, is a prefix of its new log.
LogAppendOnly ==
  [][ /\ (currentThreadId' = currentThreadId /\ last'.op # "deleteThread") =>
            IsPrefix(messages, messages')
      /\ \A t \in AllThreadIds :
            ~(last'.op = "deleteThread" /\ last'.arg = t) =>
               IsPrefix(StoredLog(storage, t), StoredLog(storage', t)) ]_vars

\* C20: the thread list returned by getThreads (the index, in its order) is
\* ordered by lastMessageAt descending.
ThreadsByRecentActivity ==
  \A i, j \in 1..Len(threads) :
    i < j => threads[i].lastMessageAt >= threads[j].lastMessageAt

----------------------------------------------------------------------------
\* Document store: JsonStorage (src/src/adapters/voice-input.ts, lines 466-586)
\*
\* A value is [t |-> "undefined"] or [t |-> "object", fields |-> f], a field
\* being a string, a Date or undefined.  In the specification of the store the
\* variable storage holds the files of the store by key, None for no file,
\* and last.snap the value of the most recent completed write of every key.

StoreKeys == {"test/item", "other/item", "non-existent"}

Str(v) == [t |-> "string", v |-> v]
Date(v) == [t |-> "date", v |-> v]
Undefined == [t |-> "undefined"]
Object(f) == [t |-> "object", fields |-> f]

PlainDoc == Object([name |-> Str("test"), value |-> Str("42")])
DatedDoc == Object([name |-> Str("one"), lastUpdated |-> Date("2026-01-01T00:00:00.000Z")])
SparseDoc == Object([name |-> Str("two"), description |-> Undefined])

StoreValues == {PlainDoc, DatedDoc, SparseDoc, Undefined}

\* Date.prototype.toJSON: a Date is written as its ISO string
ToJson(x) == IF x.t = "date" THEN Str(x.v) ELSE x

\* JSON.stringify(data) of lines 497-499: undefined for undefined, members
\* with an undefined value are left out
StoreStringify(data) ==
  IF data.t = "undefined" THEN None
  ELSE LET kept == {k \in DOMAIN data.fields : data.fields[k].t # "undefined"}
       IN Some(JsonStringify([k \in kept |-> ToJson(data.fields[k])]))

\* JSON.parse(data) of line 483
StoreParse(text) == Object(JsonParse(text).obj)

\* getFilePath (lines 555-557)
FilePath(key) == key \o ".json"

NoFiles == [p \in {FilePath(k) : k \in StoreKeys} |-> None]

\* fs.writeFile (line 501): the file holds the new text and nothing else
WriteFile(files, key, text) == [files EXCEPT ![FilePath(key)] = Some(text)]

\* fault variant: unlink leaves the file in place
UnlinkNothing(files, key) == files

\* fs.unlink (lines 506-512): ENOENT is swallowed
Unlink(files, key) == [files EXCEPT ![FilePath(key)] = None]

\* what a call of the store returned
StoreResult(threw, value) == [threw |-> threw, value |-> value]

Written == last.snap[1]

StoreNote(op, key, written, ret) ==
  [Note(op, key) EXCEPT !.snap = Some(written), !.ret = Some(ret)]

InitStore ==
  /\ phase = "constructed"
  /\ threads = << >>
  /\ currentThreadId = NoThread
  /\ messages = << >>
  /\ conversationSummary = None
  /\ entityMemory = << >>
  /\ isUpdatingMemory = FALSE
  /\ storage = NoFiles
  /\ nextThread = 0
  /\ turn = IdleTurn
  /\ runs = << >>
  /\ last = [Note("new", NoThread) EXCEPT !.snap = Some([k \in StoreKeys |-> None])]

StoreFrame ==
  UNCHANGED <<phase, threads, currentThreadId, messages, conversationSummary,
              entityMemory, isUpdatingMemory, nextThread, turn, runs>>

\* write (lines 492-502); fs.writeFile rejects undefined data with a TypeError
StoreWrite(key, data) ==
  /\ LET json == StoreStringify(data)
     IN IF json = None
        THEN /\ storage' = storage
             /\ last' = StoreNote("write", key, Written, StoreResult(TRUE, None))
        ELSE /\ storage' = WriteFile(storage, key, json[1])
             /\ last' = StoreNote("write", key, [Written EXCEPT ![key] = Some(data)],
                                  StoreResult(FALSE, None))
  /\ StoreFrame

\* read (lines 479-490)
StoreRead(key) ==
  /\ storage' = storage
  /\ last' = StoreNote("read", key, Written,
                       IF storage[FilePath(key)] = None
                       THEN StoreResult(FALSE, None)
                       ELSE StoreResult(FALSE, Some(StoreParse(storage[FilePath(key)][1]))))
  /\ StoreFrame

\* delete (lines 504-513)
StoreDelete(key) ==
  /\ storage' = Unlink(storage, key)
  /\ last' = StoreNote("delete", key, [Written EXCEPT ![key] = None], StoreResult(FALSE, None))
  /\ StoreFrame

NextStore ==
  \/ \E key \in StoreKeys, data \in StoreValues : StoreWrite(key, data)
  \/ \E key \in StoreKeys : StoreRead(key)
  \/ \E key \in StoreKeys : StoreDelete(key)

SpecStore == InitStore /\ [][NextStore]_vars

\* C21 as stated: read(k) returns the value of the most recent completed
\* write(k), and null when k was never written or was deleted since; delete
\* does not fail.
ReadReturnsLastWrite ==
  /\ last.op = "read" => last.ret[1] = StoreResult(FALSE, Written[last.arg])
  /\ last.op = "delete" => ~last.ret[1].threw

\* a value without Date or undefined members
IsPlainJson(data) ==
  /\ data.t = "object"
  /\ \A k \in DOMAIN data.fields : data.fields[k].t = "string"

\* C21 as amended: read(k) returns null exactly when k has no completed
\* write since its last delete, and otherwise the JSON image of the value of
\* the most recent completed write(k) alone, which is that value when it is
\* plain JSON data; delete does not fail.
ReadReturnsJsonImage ==
  /\ last.op = "read" =>
       /\ ~last.ret[1].threw
       /\ Written[last.arg] = None => last.ret[1].value = None
       /\ Written[last.arg] # None =>
            /\ last.ret[1].value = Some(StoreParse(StoreStringify(Written[last.arg][1])[1]))
            /\ IsPlainJson(Written[last.arg][1]) => last.ret[1].value = Written[last.arg]
  /\ last.op = "delete" => ~last.ret[1].threw

\* a document with a Date member was written and then read
ReadOfDatedDoc ==
  /\ last.op = "read"
  /\ Written[last.arg] = Some(DatedDoc)
  /\ last.ret[1].value # None

----------------------------------------------------------------------------
\* Thread switches that complete while a turn waits for the LLM
\* (switchThread is not gated on the turn: lines 492-500 test nothing)

NextSwitch ==
  \/ Initialize
  \/ Idle /\ CreateThread
  \/ \E id \in IndexedThreadIds : SwitchThread(id)
  \/ SendMessage(MaxShortLog)
  \/ TurnFirstResponse(Reply(<< >>), "none", MaxShortLog)

SpecSwitch == Init /\ [][NextSwitch]_vars

\* the messages of a log that were pushed by turns issued on other threads
Foreign(log, threadId) == {i \in 1..Len(log) : log[i].tid # threadId}

\* C22: the log of every thread, in memory and in storage, holds only messages
\* of turns that were issued on that thread, also when switchThread completes
\* while a turn waits for its LLM call
ThreadLogsIsolated ==
  /\ Foreign(messages, currentThreadId) = {}
  /\ \A id \in AllThreadIds : Foreign(StoredLog(storage, id), id) = {}

----------------------------------------------------------------------------
\* Two threads and summarization runs: the caller switches or deletes threads
\* between turns, while a run started by an earlier turn waits for the LLM

OverlapSummaries ==
  {LlmFailed, Summary(<<ConvMarker, Prose, EntityMarker, JsonArray(<< >>)>>)}

NextOverlap ==
  \/ Initialize
  \/ Idle /\ CreateThread
  \/ Idle /\ \E id \in IndexedThreadIds : SwitchThread(id)
  \/ Idle /\ \E id \in IndexedThreadIds : DeleteThread(id)
  \/ SendMessage(MaxMsgs)
  \/ \E resp \in {LlmFailed, Reply(<< >>)} : TurnFirstResponse(resp, "none", MaxMsgs)
  \/ \E i \in 1..MaxRuns, resp \in OverlapSummaries : UpdateMemoryResume(i, resp, "none")

SpecOverlap == Init /\ [][NextOverlap]_vars

\* the summary answers a request that carried messages of thread threadId
SummaryIsOf(sum, threadId) ==
  sum # None => (sum[1].of = threadId /\ sum[1].threadId = threadId)

\* C23: the summary of every thread, in memory and in storage, was computed
\* from messages of that thread and carries that thread's id, also when the
\* current thread changed while the summarization run waited for the LLM
SummaryStaysOnItsThread ==
  /\ SummaryIsOf(conversationSummary, currentThreadId)
  /\ \A id \in AllThreadIds : SummaryIsOf(storage.summary[id], id)

----------------------------------------------------------------------------
\* One thread: turns that complete while a summarization run waits for the LLM

NextAppend ==
  \/ Initialize
  \/ SendMessage(MaxLongLog)
  \/ \E resp \in {LlmFailed, Reply(<< >>)} : TurnFirstResponse(resp, "none", MaxLongLog)
  \/ \E i \in 1..MaxRuns, resp \in OverlapSummaries : UpdateMemoryResume(i, resp, "none")

SpecAppend == Init /\ [][NextAppend]_vars

\* a summarization run has just replaced the summary of the current thread
SummaryReplaced ==
  /\ last.op = "updateMemory"
  /\ last.expect[1].replaced

\* C24: the messageCount a summarization run records does not pass the end of
\* the delta the run has sent to the LLM, so every message below messageCount
\* was part of the delta of some request, also when a turn has appended
\* messages while the run waited
NoMessageSkipped ==
  SummaryReplaced => SummaryCount(conversationSummary) <= last.expect[1].upto

----------------------------------------------------------------------------
\* One thread: turns whose responses carry tool calls that change the graph

SelfCalls ==
  << Call("create_entity", "object", [id |-> "e1", type |-> "person", name |-> "Alice"]),
     Call("add_relationship", "object",
          [sourceId |-> "e1", targetId |-> "e1", relationship |-> "self"]) >>

DropCalls == << Call("delete_entity", "string", JsonStringify([id |-> "e1"])) >>

CityCalls ==
  << Call("create_entity", "string", JsonStringify(CityArgs)),
     Call("add_relationship", "object", Knows) >>

ToolResponses ==
  {LlmFailed, Reply(<< >>), Reply(SelfCalls), Reply(DropCalls), Reply(CityCalls)}

\* what saveEntityMemory of line 1001 can do: return or throw
ToolFaults == {"none", "saveEntityMemory"}

NextTools ==
  \/ Initialize
  \/ SendMessage(MaxShortLog)
  \/ \E resp \in ToolResponses, fault \in ToolFaults :
       TurnFirstResponse(resp, fault, MaxShortLog)
  \/ \E resp \in ToolResponses : TurnFollowUp(resp, "none", MaxShortLog)

SpecTools == Init /\ [][NextTools]_vars

\* C25: while a turn waits for its follow-up LLM call, and when that call has
\* returned or thrown, the stored entity graph is the graph left by the tool
\* calls of the turn
GraphPersistedBeforeFollowUp ==
  (turn.pc = "llm2" \/ last.op = "followUp") => storage.entity = Some(entityMemory)

\* the follow-up call has thrown after tool calls that created a node
FollowUpFailedAfterTools ==
  /\ last.op = "followUp"
  /\ last.ret[1].outcome = "error-reply"
  /\ last.ret[1].results = Len(SelfCalls)
  /\ storage.entity # None
  /\ NodesWithId(storage.entity[1], "e1") # {}

\* a sendMessage call returns in this step
TurnReturns == turn.pc # "idle" /\ turn'.pc = "idle"

\* the graph write of line 1001 has thrown: the turn ended after its tool loop
EndedAfterTools ==
  /\ last'.op = "firstResponse"
  /\ last'.ret[1].calls > 0

\* a turn changes the graph only in the step that follows its first LLM call
GraphChangesAfterFirstCall == entityMemory' # entityMemory => turn.pc = "llm1"

\* C26 as stated: one LLM call without tool calls in the first response, two
\* with them, and the graph changes only between the two calls
OneOrTwoLlmCalls ==
  [][ /\ TurnReturns =>
           last'.ret[1].llm = IF last'.ret[1].calls > 0 THEN 2 ELSE 1
      /\ GraphChangesAfterFirstCall ]_vars

\* C26 as amended: one LLM call when the first call throws or carries no tool
\* calls; two when it carries tool calls, unless the graph write after the tool
\* loop throws and the turn ends with an error reply after one call; the tool
\* calls of a follow-up response change nothing
LlmCallsOfATurn ==
  [][ /\ (TurnReturns /\ last'.ret[1].calls = 0) => last'.ret[1].llm = 1
      /\ (TurnReturns /\ last'.ret[1].calls > 0 /\ ~EndedAfterTools) =>
            last'.ret[1].llm = 2
      /\ (TurnReturns /\ EndedAfterTools) =>
            (last'.ret[1].llm = 1 /\ last'.ret[1].outcome = "error-reply")
      /\ GraphChangesAfterFirstCall ]_vars

\* a follow-up response that carried a delete_entity call has been answered
\* and the node is still in the graph
NestedCallsIgnored ==
  /\ last.op = "followUp"
  /\ last.ret[1].outcome = "reply"
  /\ last.ret[1].nested > 0
  /\ last.ret[1].llm = 2
  /\ NodesWithId(entityMemory, "e1") # {}

\* the tool calls of SelfCalls have just run on a graph without node e1
SelfCallsRan ==
  /\ last.op = "firstResponse"
  /\ turn.pc = "llm2"
  /\ turn.calls = SelfCalls
  /\ NodesWithId(last.snap[1], "e1") = {}

\* C27: the tool calls of a response run in array order, each on the graph the
\* previous one left: [create_entity(e1), add_relationship(e1, e1, "self")] on
\* a graph without e1 leaves one node e1 whose only edge is the "self" edge to
\* e1 of strength 0.5, and every call has produced its result
ToolCallsRunInOrder ==
  SelfCallsRan =>
    /\ Len(turn.results) = Len(SelfCalls)
    /\ Cardinality(NodesWithId(entityMemory, "e1")) = 1
    /\ \A i \in NodesWithId(entityMemory, "e1") :
         entityMemory[i].relationships = << Edge("e1", "self", DefaultStrength) >>

----------------------------------------------------------------------------
\* Bulk merge of a summarization pass

IdsOf(nodes) == {nodes[i].id : i \in 1..Len(nodes)}

\* the node array the entity section of text parses to, if it does
ParsedArray(text) ==
  IF ~EntityMatch(text) THEN None
  ELSE LET p == ParseEntityJson(EntityCapture(text))
       IN IF p.threw \/ ~p.isArray THEN None ELSE Some(p.nodes)

\* C28: after a pass whose entity section parses to the array P, every stored
\* node with an id of P is a node of P, every node of P with an id that was
\* not stored has been appended, and every stored node with an id that is not
\* in P is as it was
BulkMergeReplaces ==
  [][ \A text \in GraphSummaryTexts :
        (SummarizerMerge(text) /\ ParsedArray(text) # None) =>
          LET P == ParsedArray(text)[1]
              old == entityMemory
              new == entityMemory'
          IN /\ \A i \in 1..Len(new) :
                  new[i].id \in IdsOf(P) => \E k \in 1..Len(P) : P[k] = new[i]
             /\ \A k \in 1..Len(P) :
                  P[k].id \notin IdsOf(old) =>
                    \E i \in (Len(old) + 1)..Len(new) : new[i] = P[k]
             /\ Len(new) >= Len(old)
             /\ \A i \in 1..Len(old) :
                  old[i].id \notin IdsOf(P) => new[i] = old[i] ]_vars

----------------------------------------------------------------------------
\* One thread: summarizer responses whose entity section yields no node array

ParseSummaries ==
  { LlmFailed,
    Summary(<<ConvMarker, Prose, EntityMarker, Prose>>),
    Summary(<<ConvMarker, Prose, EntityMarker, JsonOther>>),
    Summary(<<ConvMarker, Prose, EntityMarker, Prose, JsonArray(<< Alice >>)>>),
    Summary(<<EntityMarker, JsonOther>>),
    Summary(<<ConvMarker, Prose, EntityMarker, Fence, JsonArray(<< City >>), Fence>>) }

NextParse ==
  \/ Initialize
  \/ SendMessage(MaxMsgs)
  \/ \E resp \in ToolResponses : TurnFirstResponse(resp, "none", MaxMsgs)
  \/ \E resp \in FollowUpResponses : TurnFollowUp(resp, "none", MaxMsgs)
  \/ \E i \in 1..MaxRuns, resp \in ParseSummaries, fault \in RunFaults :
       UpdateMemoryResume(i, resp, fault)

SpecParse == Init /\ [][NextParse]_vars

\* a run has ended whose response had an entity section that gave no array
EntitySectionRejected ==
  /\ last.op = "updateMemory"
  /\ last.expect[1].entity \in {"unparsable", "no-array"}

----------------------------------------------------------------------------
\* One thread: updateMemory called in any state between turns. Its caller in
\* sendMessage (line 1030) calls it only when five or more messages are new, so
\* the early returns of lines 809-822 are exercised by calling it directly

\* updateMemory up to its first await or return (lines 808-827)
UpdateMemoryCall ==
  /\ phase = "ready"
  /\ Len(runs) < MaxRuns
  /\ LET um == UpdateMemoryStart(currentThreadId, messages, conversationSummary,
                                 isUpdatingMemory, runs)
     IN /\ isUpdatingMemory' = um.flag
        /\ runs' = um.runs
        /\ last' = [Note("updateMemoryCall", currentThreadId) EXCEPT !.ret = Some(um.note)]
  /\ UNCHANGED <<phase, threads, currentThreadId, messages, conversationSummary,
                 entityMemory, storage, nextThread, turn>>

NextDirect ==
  \/ Initialize
  \/ SendMessage(MaxMsgs)
  \/ \E resp \in {LlmFailed, Reply(<< >>)} : TurnFirstResponse(resp, "none", MaxMsgs)
  \/ \E i \in 1..MaxRuns, resp \in OverlapSummaries : UpdateMemoryResume(i, resp, "none")
  \/ Idle /\ UpdateMemoryCall

SpecDirect == Init /\ [][NextDirect]_vars

\* no run is in progress and the summary covers the whole log of the thread
DeltaIsEmpty ==
  /\ currentThreadId # NoThread
  /\ Len(messages) >= 2
  /\ ~isUpdatingMemory
  /\ SummaryCount(conversationSummary) >= Len(messages)

\* C30: a run whose delta is empty issues no LLM call, leaves the summary,
\* the graph, the thread index and the storage as they were, and ends with
\* the busy flag reset
EmptyDeltaRunWritesNothing ==
  [][ (DeltaIsEmpty /\ last'.op = "updateMemoryCall") =>
        /\ runs' = runs
        /\ conversationSummary' = conversationSummary
        /\ entityMemory' = entityMemory
        /\ messages' = messages
        /\ threads' = threads
        /\ storage' = storage
        /\ ~isUpdatingMemory' ]_vars

\* updateMemory has returned because its delta was empty
EmptyDeltaRunEnded ==
  /\ last.op = "updateMemoryCall"
  /\ last.ret[1] = "empty"
  /\ SummaryCount(conversationSummary) = Len(messages)
  /\ Len(messages) >= summaryUpdateFrequency

----------------------------------------------------------------------------
\* Narrative section of a summarizer response

\* the response text carries the narrative marker
HasNarrative(text) == Positions(text, ConvMarker) # {}

\* C31: a run whose response contains the narrative section replaces the
\* summary of the thread, with messageCount the length of the log, whether or
\* not the response contains the entity section too
NarrativeAlwaysReplaces ==
  [][ \A i \in 1..MaxRuns, resp \in PlainSummaries, fault \in RunFaults :
        (UpdateMemoryResume(i, resp, fault) /\ resp.ok /\ HasNarrative(resp.text)) =>
          /\ last'.expect[1].replaced
          /\ conversationSummary' # None
          /\ conversationSummary'[1].messageCount = Len(messages') ]_vars

----------------------------------------------------------------------------
\* Recent window of the message log

\* Array.prototype.slice(start) with one argument: a negative start counts
\* from the end, and -0 is 0
Slice(log, start) ==
  LET len == Len(log)
      k == IF start < 0
           THEN (IF len + start > 0 THEN len + start ELSE 0)
           ELSE (IF start < len THEN start ELSE len)
  IN SubSeq(log, k + 1, len)

\* getRecentMessages (lines 1046-1048)
GetRecentMessages(log, count) == Slice(log, 0 - count)

\* line 969: the window sendMessage puts into the LLM context
ContextWindow(log) == Slice(log, 0 - recentMessagesCount)

\* a call of getRecentMessages(count) between two turns
RecentMessages(count) ==
  /\ phase = "ready"
  /\ last' = [Note("getRecentMessages", NoThread) EXCEPT
                !.ret = Some([count |-> count,
                              window |-> GetRecentMessages(messages, count),
                              context |-> ContextWindow(messages)])]
  /\ UNCHANGED <<phase, threads, currentThreadId, messages, conversationSummary,
                 entityMemory, isUpdatingMemory, storage, nextThread, turn, runs>>

NextWindow ==
  \/ Initialize
  \/ SendMessage(MaxMsgs)
  \/ \E resp \in {LlmFailed, Reply(<< >>)} : TurnFirstResponse(resp, "none", MaxMsgs)
  \/ Idle /\ ClearCurrentThread
  \/ Idle /\ \E count \in 0..MaxCount : RecentMessages(count)

SpecWindow == Init /\ [][NextWindow]_vars

\* the last min(n, length) messages of a log, in log order
LastOf(log, n) ==
  LET m == IF n < Len(log) THEN n ELSE Len(log)
  IN [i \in 1..m |-> log[Len(log) - m + i]]

\* C32: getRecentMessages(n) and the context window of sendMessage are the
\* last min(n, length) messages of the log in log order, for every n >= 0,
\* and the call leaves the log as it was
WindowIsLastN ==
  [][ last'.op = "getRecentMessages" =>
        /\ last'.ret[1].window = LastOf(messages, last'.ret[1].count)
        /\ last'.ret[1].context = LastOf(messages, recentMessagesCount)
        /\ messages' = messages ]_vars

----------------------------------------------------------------------------
\* Argument payloads of tool calls

ToolNames ==
  {"create_entity", "update_entity", "delete_entity", "add_relationship",
   "remove_relationship"}

\* the argument objects that GraphToolCalls delivers as JSON text
EncodedCalls ==
  { [name |-> "create_entity", args |-> CityArgs],
    [name |-> "delete_entity", args |-> [id |-> "e2"]],
    [name |-> "add_relationship", args |-> Spread(Knows, [strength |-> 9])] }

Malformed == [form |-> "garbage"]

RequiredIds(name) ==
  IF name \in {"create_entity", "update_entity", "delete_entity"} THEN {"id"}
  ELSE IF name \in {"add_relationship", "remove_relationship"} THEN {"sourceId", "targetId"}
  ELSE {}

\* the payload of the call is malformed text or lacks a required id argument
LacksRequiredIds(toolCall) ==
  \/ toolCall.arguments.kind = "string" /\ toolCall.arguments.val = Malformed
  \/ \E k \in RequiredIds(toolCall.name) :
       k \notin DOMAIN NormalizeArgs(toolCall.arguments).obj

\* C34: a call of one of the five tools with a malformed payload or without
\* its required id arguments leaves every node and every relationship of the
\* graph as it was
BadPayloadChangesNothing ==
  [][ \A toolCall \in GraphToolCalls :
        (ToolCall(toolCall) /\ toolCall.name \in ToolNames /\ LacksRequiredIds(toolCall)) =>
          entityMemory' = entityMemory ]_vars

----------------------------------------------------------------------------
\* Tool calls that report not-found

NotFoundReports ==
  {"Entity not found", "Source entity not found", "Target entity not found",
   "Relationship not found"}

\* C35: on every graph, a tool call whose result reports not-found (an absent
\* id for update_entity or delete_entity, an absent source or an absent edge
\* for remove_relationship) leaves the graph as it was, and no exception
\* leaves the call
NotFoundChangesNothing ==
  \A toolCall \in GraphToolCalls :
    LET r == ExecuteEntityTool(entityMemory, toolCall)
    IN /\ ~r.threw
       /\ r.result[1] \in NotFoundReports => r.nodes = entityMemory

\* remove_relationship has reported an absent edge on a source that has edges
EdgeNotFoundReported ==
  /\ last.op = "toolCall"
  /\ last.ret[1].name = "remove_relationship"
  /\ last.ret[1].result[1] = "Relationship not found"
  /\ \E i \in NodesWithId(entityMemory, "e1") :
       HasRels(entityMemory[i]) /\ entityMemory[i].relationships # << >>

----------------------------------------------------------------------------
\* Frame of create_entity and update_entity

\* node new is node old with at most name, description and properties changed,
\* each as the argument object args supplies it
MergedFrom(old, new, args) ==
  /\ DOMAIN new = DOMAIN old
  /\ \A f \in DOMAIN old \ {"name", "description", "properties"} : new[f] = old[f]
  /\ \A f \in {"name", "description"} :
       new[f] # old[f] => (f \in DOMAIN args /\ new[f] = args[f])
  /\ DOMAIN new.properties = (DOMAIN old.properties) \cup (DOMAIN PropsOf(args))
  /\ \A k \in DOMAIN new.properties :
       new.properties[k] = IF k \in DOMAIN PropsOf(args) THEN PropsOf(args)[k]
                           ELSE old.properties[k]

UpsertCalls == {c \in GraphToolCalls : c.name \in {"create_entity", "update_entity"}}

\* C36: on every graph, create_entity or update_entity on a stored id changes
\* of that node only name and description, each only as supplied, and merges
\* the supplied properties into it; its id, type, relationships and other
\* properties and all other nodes stay as they are; create_entity on an id
\* that is not stored appends a node with that id and no relationships
UpsertFrame ==
  \A toolCall \in UpsertCalls :
    LET args == NormalizeArgs(toolCall.arguments).obj
        index == FindIndex(entityMemory, Get(args, "id"))
        r == ExecuteEntityTool(entityMemory, toolCall)
    IN IF index > 0
       THEN /\ Len(r.nodes) = Len(entityMemory)
            /\ \A i \in 1..Len(entityMemory) :
                 i # index => r.nodes[i] = entityMemory[i]
            /\ MergedFrom(entityMemory[index], r.nodes[index], args)
       ELSE IF toolCall.name = "create_entity"
       THEN /\ Len(r.nodes) = Len(entityMemory) + 1
            /\ SubSeq(r.nodes, 1, Len(entityMemory)) = entityMemory
            /\ r.nodes[Len(r.nodes)].id = Get(args, "id")
            /\ r.nodes[Len(r.nodes)].relationships = << >>
       ELSE r.nodes = entityMemory

\* update_entity has renamed node e1 and merged a property into it, and the
\* node still has its edges
UpdateKeptEdges ==
  /\ last.op = "toolCall"
  /\ last.ret[1].name = "update_entity"
  /\ last.ret[1].result = <<"Updated entity", "e1">>
  /\ \E i \in NodesWithId(entityMemory, "e1") :
       /\ entityMemory[i].name = "Al"
       /\ entityMemory[i].properties = [age |-> "30"]
       /\ HasRels(entityMemory[i])
       /\ entityMemory[i].relationships # << >>

----------------------------------------------------------------------------
\* Several threads and a graph that tool calls of turns have filled

NextShared ==
  \/ Initialize
  \/ Idle /\ CreateThread
  \/ Idle /\ \E id \in IndexedThreadIds : SwitchThread(id)
  \/ Idle /\ \E id \in IndexedThreadIds : DeleteThread(id)
  \/ Idle /\ ClearCurrentThread
  \/ SendMessage(MaxShortLog)
  \/ \E resp \in {Reply(<< >>), Reply(SelfCalls), Reply(CityCalls)} :
       TurnFirstResponse(resp, "none", MaxShortLog)
  \/ TurnFollowUp(Reply(<< >>), "none", MaxShortLog)

SpecShared == Init /\ [][NextShared]_vars

ThreadOps == {"createThread", "switchThread", "deleteThread", "clearCurrentThread"}

\* C37: createThread, switchThread, deleteThread and clearCurrentThread leave
\* the entity graph as it was, in memory and in storage, and deleteThread
\* leaves the stored log and summary of every other thread as they were
ThreadOpsKeepGraph ==
  [][ last'.op \in ThreadOps =>
        /\ entityMemory' = entityMemory
        /\ storage'.entity = storage.entity
        /\ last'.op = "deleteThread" =>
             \A t \in AllThreadIds \ {last'.arg} :
               /\ storage'.history[t] = storage.history[t]
               /\ storage'.summary[t] = storage.summary[t] ]_vars

\* a thread has been deleted while the graph held nodes, and the graph is
\* still stored
ThreadDeletedGraphKept ==
  /\ last.op = "deleteThread"
  /\ Len(threads) > 0
  /\ NodesWithId(entityMemory, "e1") # {}
  /\ storage.entity = Some(entityMemory)

----------------------------------------------------------------------------
\* Node ids across a summarization pass

\* C38: a summarization pass removes no node: every id of the graph before
\* the pass is an id of the graph after it, whatever the entity section of the
\* response is
MergeKeepsIds ==
  [][ last'.op = "bulkMerge" => IdsOf(entityMemory) \subseteq IdsOf(entityMemory') ]_vars

\* a pass has replaced node e2 by the node of its array and node e1 is still
\* in the graph
MergedAndKept ==
  /\ last.op = "bulkMerge"
  /\ NodesWithId(entityMemory, "e1") # {}
  /\ \E i \in NodesWithId(entityMemory, "e2") : entityMemory[i] = Bare

====
